---- MODULE Spec2Model ----
(***************************************************************************)
(* Model of core/common/commands.cpp (peercast-yt): the command console.   *)
(*                                                                         *)
(* A string is a sequence of one-character strings.  A text handed to the  *)
(* output sink is a sequence of atoms: format fragments (string literals   *)
(* of the source, the leading "Error: " always an atom of its own) and     *)
(* the characters of the strings formatted into it.                        *)
(***************************************************************************)
EXTENDS Integers, Sequences, FiniteSets, TLC

(* ------------------------------ bounds -------------------------------- *)

\* A command line is a head followed by at most MaxPieces pieces.
MaxPieces == 3
\* The producer logs at most MaxChunks messages during one Commands::log.
MaxChunks == 2
\* Collaborator tables (channels, filters, resolved addresses) hold at most
\* MaxEntries entries.
MaxEntries == 1
\* A handler or parse_options called directly gets at most MaxArgs arguments.
MaxArgs == 3
\* command_words called directly gets a line of at most MaxLineLen characters.
MaxLineLen == 5

(* ------------------------------ strings ------------------------------- *)

SP  == " "
DQ  == "\""
BS  == "\\"
\* What a read of the string's terminator yields.
NUL == "NUL"

S_log      == <<"l", "o", "g">>
S_nslookup == <<"n", "s", "l", "o", "o", "k", "u", "p">>
S_helo     == <<"h", "e", "l", "o">>
S_filter   == <<"f", "i", "l", "t", "e", "r">>
S_get      == <<"g", "e", "t">>
S_chan     == <<"c", "h", "a", "n">>
S_echo     == <<"e", "c", "h", "o">>
S_show     == <<"s", "h", "o", "w">>
S_ban      == <<"b", "a", "n">>
S_v        == <<"-", "v">>
S_dashdash == <<"-", "-">>

\* Command lines are a head followed by at most MaxPieces tail pieces.  The
\* heads: the command names, a name in another case, a name after a leading
\* space, a name inside an opening quote, nothing, and filter with each of its
\* subcommands.  The tail pieces: the
\* characters the tokenizer treats specially, an ordinary character, and the
\* flag -v after a space.
Heads ==
    { S_log, S_nslookup, S_helo, S_filter, S_get, S_chan, S_echo,
      <<"L", "o", "g">>, <<SP>> \o S_echo, <<DQ>> \o S_log, <<>>,
      S_filter \o <<SP>> \o S_show, S_filter \o <<SP>> \o S_ban }

Pieces == { <<SP>>, <<DQ>>, <<BS>>, <<"x">>, <<SP>> \o S_v }

RECURSIVE Flatten(_)
Flatten(ps) == IF ps = <<>> THEN <<>> ELSE Head(ps) \o Flatten(Tail(ps))

Tails == { Flatten(ps) : ps \in UNION { [1..n -> Pieces] : n \in 0..MaxPieces } }

CmdLines == { h \o t : h \in Heads, t \in Tails }

(* ------------------------- command_words ------------------------------ *)

\* *p for the cursor at position p (1-based; the end is Len(s) + 1).  A read
\* at the end yields the terminator.
Deref(s, p) == IF p <= Len(s) THEN s[p] ELSE NUL

\* The do { p++; } while (*p == ' ') loop: the position it stops at.
RECURSIVE SkipSpaces(_, _)
SkipSpaces(s, p) ==
    IF Deref(s, p + 1) = SP THEN SkipSpaces(s, p + 1) ELSE p + 1

WordsOk(words, atEnd) ==
    [ok |-> TRUE, words |-> words, msg |-> <<>>, atEnd |-> atEnd]

WordsFail(msg, atEnd) ==
    [ok |-> FALSE, words |-> <<>>, msg |-> <<msg>>, atEnd |-> atEnd]

\* The outer loop (Unquoted) and the quoted loop (Quoted) of command_words.
\* atEnd records whether the cursor was dereferenced at the end of the input.
RECURSIVE Unquoted(_, _, _, _, _)
RECURSIVE Quoted(_, _, _, _, _)

\* Mutant of Unquoted: the last word is pushed also when it is empty.
Unquoted_flushalways(s, p, word, words, atEnd) ==
    IF p = Len(s) + 1
    THEN WordsOk(Append(words, word), atEnd)
    ELSE IF s[p] = SP
    THEN LET q == SkipSpaces(s, p)
         IN  Unquoted(s, q, <<>>,
                      IF Len(word) > 0 THEN Append(words, word) ELSE words,
                      atEnd \/ q = Len(s) + 1)
    ELSE IF s[p] = DQ
    THEN Quoted(s, p + 1, word, words, atEnd)
    ELSE Unquoted(s, p + 1, Append(word, s[p]), words, atEnd)

\* Mutant of Unquoted: a space pushes the word without emptying it.
Unquoted_noreset(s, p, word, words, atEnd) ==
    IF p = Len(s) + 1
    THEN WordsOk(IF Len(word) > 0 THEN Append(words, word) ELSE words, atEnd)
    ELSE IF s[p] = SP
    THEN LET q == SkipSpaces(s, p)
         IN  Unquoted(s, q, word,
                      IF Len(word) > 0 THEN Append(words, word) ELSE words,
                      atEnd \/ q = Len(s) + 1)
    ELSE IF s[p] = DQ
    THEN Quoted(s, p + 1, word, words, atEnd)
    ELSE Unquoted(s, p + 1, Append(word, s[p]), words, atEnd)

\* Mutant of Unquoted: a space ends the word also when the word is empty.
Unquoted_emptyword(s, p, word, words, atEnd) ==
    IF p = Len(s) + 1
    THEN WordsOk(IF Len(word) > 0 THEN Append(words, word) ELSE words, atEnd)
    ELSE IF s[p] = SP
    THEN LET q == SkipSpaces(s, p)
         IN  Unquoted(s, q, <<>>, Append(words, word), atEnd \/ q = Len(s) + 1)
    ELSE IF s[p] = DQ
    THEN Quoted(s, p + 1, word, words, atEnd)
    ELSE Unquoted(s, p + 1, Append(word, s[p]), words, atEnd)

Unquoted(s, p, word, words, atEnd) ==
    IF p = Len(s) + 1
    THEN WordsOk(IF Len(word) > 0 THEN Append(words, word) ELSE words, atEnd)
    ELSE IF s[p] = SP
    THEN LET q == SkipSpaces(s, p)
         IN  Unquoted(s, q, <<>>,
                      IF Len(word) > 0 THEN Append(words, word) ELSE words,
                      atEnd \/ q = Len(s) + 1)
    ELSE IF s[p] = DQ
    THEN Quoted(s, p + 1, word, words, atEnd)
    ELSE Unquoted(s, p + 1, Append(word, s[p]), words, atEnd)

\* Mutant of Quoted: the closing quote leaves the quoted region and the word
\* goes on.
Quoted_noflush(s, p, word, words, atEnd) ==
    IF p = Len(s) + 1
    THEN WordsFail("Premature end of quoted string", atEnd)
    ELSE IF s[p] = BS
    THEN IF p + 1 = Len(s) + 1
         THEN WordsFail("Premature end of escaped character", atEnd)
         ELSE Quoted(s, p + 2, Append(word, s[p + 1]), words, atEnd)
    ELSE IF s[p] = DQ
    THEN Unquoted(s, p + 1, word, words, atEnd)
    ELSE Quoted(s, p + 1, Append(word, s[p]), words, atEnd)

\* Mutant of Quoted: the end of the input closes an open quote.
Quoted_lenient(s, p, word, words, atEnd) ==
    IF p = Len(s) + 1
    THEN WordsOk(Append(words, word), atEnd)
    ELSE IF s[p] = BS
    THEN IF p + 1 = Len(s) + 1
         THEN WordsFail("Premature end of escaped character", atEnd)
         ELSE Quoted(s, p + 2, Append(word, s[p + 1]), words, atEnd)
    ELSE IF s[p] = DQ
    THEN Unquoted(s, p + 1, <<>>, Append(words, word), atEnd)
    ELSE Quoted(s, p + 1, Append(word, s[p]), words, atEnd)

Quoted(s, p, word, words, atEnd) ==
    IF p = Len(s) + 1
    THEN WordsFail("Premature end of quoted string", atEnd)
    ELSE IF s[p] = BS
    THEN IF p + 1 = Len(s) + 1
         THEN WordsFail("Premature end of escaped character", atEnd)
         ELSE Quoted(s, p + 2, Append(word, s[p + 1]), words, atEnd)
    ELSE IF s[p] = DQ
    THEN Unquoted(s, p + 1, <<>>, Append(words, word), atEnd)
    ELSE Quoted(s, p + 1, Append(word, s[p]), words, atEnd)

command_words(cmdline) == Unquoted(cmdline, 1, <<>>, <<>>, FALSE)

(* --------------------------- parse_options ---------------------------- *)

RECURSIVE parse_from(_, _, _, _, _)

\* Mutant of parse_from: the inner loop starts at j = i, so "--" itself is
\* taken as a positional.
parse_from_keep(args, option_names, i, options, positionals) ==
    IF i > Len(args)
    THEN [options |-> options, positionals |-> positionals]
    ELSE IF args[i] = S_dashdash
    THEN [options |-> options,
          positionals |-> positionals \o SubSeq(args, i, Len(args))]
    ELSE IF args[i] \in option_names
    THEN parse_from(args, option_names, i + 1,
                    options \cup {args[i]}, positionals)
    ELSE parse_from(args, option_names, i + 1,
                    options, Append(positionals, args[i]))

parse_from(args, option_names, i, options, positionals) ==
    IF i > Len(args)
    THEN [options |-> options, positionals |-> positionals]
    ELSE IF args[i] = S_dashdash
    THEN [options |-> options,
          positionals |-> positionals \o SubSeq(args, i + 1, Len(args))]
    ELSE IF args[i] \in option_names
    THEN parse_from(args, option_names, i + 1,
                    options \cup {args[i]}, positionals)
    ELSE parse_from(args, option_names, i + 1,
                    options, Append(positionals, args[i]))

parse_options(args, option_names) ==
    parse_from(args, option_names, 1, {}, <<>>)

(* --------------------------- output sink ------------------------------ *)

\* stream.writeLine / writeLineF append a line terminator; writeString /
\* writeStringF do not.
Line(t) == [k |-> "line", t |-> t]
Raw(t)  == [k |-> "raw", t |-> t]

\* "Error: %s"
ErrorText(msg) == <<"Error: ">> \o msg

\* e.what() of a failure raised by the sink.
SinkMsg == <<"write failed">>

\* The kinds of failure: a GeneralException ("domain") and any other
\* exception ("other").
Raised == {"domain", "other"}

\* What a handler, or Commands::system, has done when it ends: the writes the
\* sink accepted, how it ended (exc: "none" is a normal return, "terminate"
\* is std::terminate), the message of the failure it raised, the number of
\* writes the sink refused, and the calls it made to its collaborators (each a
\* tuple: the call, and "failed" when it raised).
Outcome(out, exc, msg, faults, acts) ==
    [out |-> out, exc |-> exc, msg |-> msg, faults |-> faults, acts |-> acts]

Done(out) == Outcome(out, "none", <<>>, 0, <<>>)

\* b after a.
Join(a, b) ==
    Outcome(a.out \o b.out, b.exc, b.msg, a.faults + b.faults, a.acts \o b.acts)

\* The writes ws in order, on a sink that accepts a write or raises.
WriteAll(ws) ==
    { Done(ws) } \cup
    { Outcome(SubSeq(ws, 1, i - 1), e, IF e = "domain" THEN SinkMsg ELSE <<>>,
              1, <<>>) : i \in 1..Len(ws), e \in Raised }

\* S, then (when it returned) one of T.
AndThen(S, T) ==
    UNION { IF a.exc = "none" THEN { Join(a, b) : b \in T } ELSE {a} : a \in S }

\* A call of a collaborator: it returns, or raises.
Call(act, msg) ==
    { Outcome(<<>>, "none", <<>>, 0, <<<<act>>>>),
      Outcome(<<>>, "domain", msg, 0, <<<<act, "failed">>>>),
      Outcome(<<>>, "other", <<>>, 0, <<<<act, "failed">>>>) }

(* ----------------------------- Commands::echo ------------------------- *)

RECURSIVE str_join(_, _)
str_join(sep, ws) ==
    IF ws = <<>> THEN <<>>
    ELSE IF Len(ws) = 1 THEN ws[1]
    ELSE ws[1] \o sep \o str_join(sep, Tail(ws))

\* Mutant of echo: the numbering starts at 0.
echo_from0(argv) ==
    LET po == parse_options(argv, {S_v})
        ps == po.positionals
    IN  IF S_v \in po.options
        THEN WriteAll([i \in 1..Len(ps) |->
                          Line(<<"[", ToString(i - 1), "] ">> \o ps[i])])
        ELSE WriteAll(<<Line(str_join(<<SP>>, ps))>>)

echo(argv) ==
    LET po == parse_options(argv, {S_v})
        ps == po.positionals
    IN  IF S_v \in po.options
        THEN WriteAll([i \in 1..Len(ps) |->
                          Line(<<"[", ToString(i), "] ">> \o ps[i])])
        ELSE WriteAll(<<Line(str_join(<<SP>>, ps))>>)

(* ----------------------------- Commands::chan ------------------------- *)

\* The line of the i-th channel of chanMgr's list.
ChanLine(i) ==
    Line(<<"name", ToString(i), SP, "id", ToString(i), SP, "status", ToString(i)>>)

chan(argv) ==
    UNION { WriteAll([i \in 1..n |-> ChanLine(i)]) : n \in 0..MaxEntries }

(* ----------------------------- Commands::get -------------------------- *)

HttpMsg  == <<"http error">>
HttpBody == <<"body">>

\* Mutant of get: only a missing URL is refused (argv.size() < 1).
get_nocheck(argv) ==
    IF Len(argv) < 1
    THEN WriteAll(<<Line(<<"Usage: get URL">>)>>)
    ELSE UNION {
           IF r.exc = "domain"
           THEN { Join(Outcome(<<>>, "none", <<>>, 0, r.acts), w)
                    : w \in WriteAll(<<Raw(ErrorText(r.msg))>>) }
           ELSE IF r.exc = "other" THEN {r}
           ELSE { Join(r, w) : w \in WriteAll(<<Raw(HttpBody)>>) }
           : r \in Call("http_get", HttpMsg) }

get(argv) ==
    IF Len(argv) # 1
    THEN WriteAll(<<Line(<<"Usage: get URL">>)>>)
    ELSE UNION {
           IF r.exc = "domain"
           THEN { Join(Outcome(<<>>, "none", <<>>, 0, r.acts), w)
                    : w \in WriteAll(<<Raw(ErrorText(r.msg))>>) }
           ELSE IF r.exc = "other" THEN {r}
           ELSE { Join(r, w) : w \in WriteAll(<<Raw(HttpBody)>>) }
           : r \in Call("http_get", HttpMsg) }

(* ---------------------------- Commands::filter ------------------------ *)

\* ServFilter's flags, in the order the handler tests them, and their labels.
FilterFlags == <<"F_BAN", "F_NETWORK", "F_DIRECT", "F_PRIVATE">>
FilterLabel(f) ==
    CASE f = "F_BAN"     -> <<"banned">>
      [] f = "F_NETWORK" -> <<"network">>
      [] f = "F_DIRECT"  -> <<"direct">>
      [] f = "F_PRIVATE" -> <<"private">>

\* The labels of a filter whose flags are fs.
RECURSIVE filter_labels(_, _)
filter_labels(fs, i) ==
    IF i > Len(FilterFlags) THEN <<>>
    ELSE (IF FilterFlags[i] \in fs THEN <<FilterLabel(FilterFlags[i])>> ELSE <<>>)
         \o filter_labels(fs, i + 1)

\* "%-20s": s, then spaces up to a width of 20.
RECURSIVE PadRight20(_)
PadRight20(s) == IF Len(s) >= 20 THEN s ELSE PadRight20(Append(s, SP))

\* getPattern() of the i-th filter of servMgr's table.
FilterPattern(i) == <<"f", ToString(i)>>

FilterLine(i, fs) ==
    Line(PadRight20(FilterPattern(i)) \o <<SP>> \o str_join(<<SP>>, filter_labels(fs, 1)))

\* servMgr's filter table: the flags of each entry.
FilterTables ==
    UNION { [1..n -> SUBSET { FilterFlags[i] : i \in 1..Len(FilterFlags) }]
              : n \in 0..MaxEntries }

filter(argv) ==
    IF Len(argv) < 1
    THEN WriteAll(<<Line(<<"Usage: filter show">>),
                    Line(<<"       filter ban TARGET">>)>>)
    ELSE IF argv[1] = S_show
    THEN UNION { WriteAll([i \in 1..Len(tb) |-> FilterLine(i, tb[i])])
                   : tb \in FilterTables }
    ELSE IF argv[1] = S_ban
    THEN WriteAll(<<Line(<<"not implemented yet">>)>>)
    ELSE WriteAll(<<Line(<<"Unknown subcommand '">> \o argv[1] \o <<"'">>)>>)

(* --------------------------- Commands::nslookup ----------------------- *)

DnsMsg   == <<"name not resolved">>
HostName == <<"hostname">>
IpText(i) == <<"ip", ToString(i)>>

nslookup_notfound(str, msg) ==
    WriteAll(<<Line(<<"Error: ", "'">> \o str \o <<"' not found: ">> \o msg)>>)

\* The outcomes S of the try block of Commands::nslookup, through its
\* catch (GeneralException&): a domain failure is rendered, any other failure
\* goes on.
nslookup_catch(S, str) ==
    UNION { IF a.exc = "domain"
            THEN { Join(Outcome(a.out, "none", <<>>, a.faults, a.acts), b)
                     : b \in nslookup_notfound(str, a.msg) }
            ELSE {a} : a \in S }

nslookup(argv) ==
    IF Len(argv) # 1
    THEN WriteAll(<<Line(<<"Usage: nslookup NAME">>)>>)
    ELSE LET str == argv[1]
             \* IP::tryParse(str, ip) accepted str
             byAddress ==
                 { Join(Outcome(<<>>, "none", <<>>, 0, <<<<"getHostnameByAddress">>>>), w)
                     : w \in WriteAll(<<Line(HostName)>>)
                             \cup WriteAll(<<Line(<<"Error: ", "'">> \o str
                                                  \o <<"' not found">>)>>) }
             \* IP::tryParse refused it
             byName ==
                 nslookup_catch(AndThen(Call("getIPAddresses", DnsMsg),
                                        UNION { WriteAll([i \in 1..n |-> Line(IpText(i))])
                                                  : n \in 0..MaxEntries }),
                                str)
         IN  byAddress \cup byName

(* ----------------------------- Commands::helo ------------------------- *)

\* The statements of the try block, in order.
HeloSteps ==
    << "aux_push", "host_parse", "write_helo", "createSocket", "open",
       "connect", "defer2", "send_connect", "handshake", "write_id",
       "write_agent", "send_quit", "close", "write_ok" >>

HostText   == <<"host">>
RemoteId   == <<"remote-id">>
AgentText  == <<"agent">>
LogText    == <<"log message">>
HeloMsg(step) == <<step, " failed">>

\* The block's state: what the sink accepted, the events so far, the writes
\* the sink refused, whether the socket exists and is open, whether defer2 is
\* armed, and how many messages the CopyingStream has written and read (each
\* counted as one byte).
HeloStart ==
    [out |-> <<>>, acts |-> <<>>, faults |-> 0, created |-> FALSE,
     open |-> FALSE, armed |-> FALSE, w |-> 0, r |-> 0]

StepOk(st)             == [st |-> st, exc |-> "none", msg |-> <<>>]
StepRaise(st, e, msg)  == [st |-> st, exc |-> e, msg |-> IF e = "domain" THEN msg ELSE <<>>]

Event(st, a) == [st EXCEPT !.acts = Append(@, a)]

\* One write to stdout.
HeloWrite(st, w) ==
    { StepOk([st EXCEPT !.out = Append(@, w)]) } \cup
    { StepRaise([st EXCEPT !.faults = @ + 1], e, SinkMsg) : e \in Raised }

\* The writes ws to stdout, to the first one the sink refuses.
RECURSIVE HeloWrites(_, _)
HeloWrites(st, ws) ==
    IF ws = <<>> THEN { StepOk(st) }
    ELSE UNION { IF x.exc = "none" THEN HeloWrites(x.st, Tail(ws)) ELSE {x}
                   : x \in HeloWrite(st, Head(ws)) }

\* A call of a collaborator that returns or raises.
HeloCall(st, a) ==
    { StepOk(Event(st, a)) } \cup
    { StepRaise(Event(st, <<a[1], "failed">>), e, HeloMsg(a[1])) : e \in Raised }

\* The callback pushed on AUX_LOG_FUNC_VECTOR, called with a message of type
\* type.
aux_log_func(st, type) ==
    HeloWrites(st, (IF type = "T_ERROR" THEN <<Raw(<<"Error: ">>)>>
                    ELSE IF type = "T_WARN" THEN <<Raw(<<"Warning: ">>)>>
                    ELSE <<>>) \o <<Line(LogText)>>)

\* What the handshake logs while the callback is registered: nothing, or one
\* message.
LogChoices == {"none", "T_ERROR", "T_WARN", "T_INFO"}

helo_step(step, st) ==
    CASE step = "aux_push"     -> { StepOk(Event(st, <<"aux_push">>)) }
      [] step = "host_parse"   -> HeloCall(st, <<"Host::fromString">>)
      [] step = "write_helo"   -> HeloWrite(st, Line(<<"HELO ">> \o HostText))
      [] step = "createSocket" ->
            { StepOk([Event(st, <<"createSocket">>) EXCEPT !.created = TRUE]) }
      [] step = "open"         ->
            { StepOk([Event(st, <<"sock_open">>) EXCEPT !.open = TRUE]) } \cup
            { StepRaise(Event(st, <<"open", "failed">>), e, HeloMsg("open"))
                : e \in Raised }
      [] step = "connect"      -> HeloCall(st, <<"connect">>)
      [] step = "defer2"       -> { StepOk([st EXCEPT !.armed = TRUE]) }
      [] step = "send_connect" ->
            { StepOk([Event(st, <<"send_connect">>) EXCEPT !.w = @ + 1]) } \cup
            { StepRaise(Event(st, <<"send_connect", "failed">>), e,
                        HeloMsg("send_connect")) : e \in Raised }
      [] step = "handshake"    ->
            UNION { IF x.exc # "none" THEN {x}
                    ELSE { StepOk([Event(x.st, <<"handshake">>)
                                     EXCEPT !.w = @ + 1, !.r = @ + 1]) } \cup
                         { StepRaise([Event(x.st, <<"handshake", "failed">>)
                                        EXCEPT !.w = @ + 1], e, HeloMsg("handshake"))
                             : e \in Raised }
                    : x \in UNION { IF lg = "none" THEN { StepOk(st) }
                                    ELSE aux_log_func(st, lg) : lg \in LogChoices } }
      [] step = "write_id"     -> HeloWrite(st, Line(<<"Remote ID: ">> \o RemoteId))
      [] step = "write_agent"  -> HeloWrite(st, Line(<<"Remote agent: ">> \o AgentText))
      [] step = "send_quit"    ->
            { StepOk([Event(st, <<"send_quit">>) EXCEPT !.w = @ + 1]) } \cup
            { StepRaise(Event(st, <<"send_quit", "failed">>), e,
                        HeloMsg("send_quit")) : e \in Raised }
      [] step = "close"        ->
            { StepOk([Event(st, <<"sock_close">>) EXCEPT !.open = FALSE]) }
      [] step = "write_ok"     -> HeloWrite(st, Line(<<"OK">>))

\* What defer2 writes when -v was given.
helo_dump(st) ==
    <<Line(<<"--- ", ToString(st.w), " bytes written">>)>>
    \o (IF st.w > 0 THEN <<Line(<<"ascii_dump(dataWritten)">>),
                           Line(<<"hexdump(dataWritten)">>)>> ELSE <<>>)
    \o <<Line(<<"--- ", ToString(st.r), " bytes read">>)>>
    \o (IF st.r > 0 THEN <<Line(<<"ascii_dump(dataRead)">>),
                           Line(<<"hexdump(dataRead)">>)>> ELSE <<>>)

\* The socket going out of scope: the last owner of the ClientSocket releases
\* it, and a socket still open is closed.
ClientSocket_destroy(st) ==
    IF ~st.created THEN st
    ELSE IF st.open THEN [Event(st, <<"sock_close">>) EXCEPT !.open = FALSE]
    ELSE st

\* Mutant of helo_defer: the callback stays on the vector.
helo_defer_leak(st) == st

\* Defer defer: AUX_LOG_FUNC_VECTOR->pop_back() when the try block is left.
helo_defer(st) == Event(st, <<"aux_pop">>)

\* catch (GeneralException& e): one line "Error: <what>".
helo_catch(st, msg) == HeloWrite(st, Line(ErrorText(msg)))

AsOutcome(x) == Outcome(x.st.out, x.exc, x.msg, x.st.faults, x.st.acts)

\* Leaving the try block, normally (exc = "none") or by the failure exc: defer2
\* runs when armed (a failure leaving a destructor is std::terminate), the
\* socket goes out of scope, defer pops the callback; then a domain failure is
\* caught.
helo_exit(st, exc, msg, verbose) ==
    LET dumps == IF st.armed /\ verbose THEN HeloWrites(st, helo_dump(st))
                 ELSE { StepOk(st) }
    IN  UNION { IF d.exc # "none"
                THEN { Outcome(d.st.out, "terminate", <<>>, d.st.faults, d.st.acts) }
                ELSE LET left == helo_defer(ClientSocket_destroy(d.st))
                     IN  IF exc = "domain"
                         THEN { AsOutcome(c) : c \in helo_catch(left, msg) }
                         ELSE { Outcome(left.out, exc, <<>>, left.faults, left.acts) }
                : d \in dumps }

RECURSIVE helo_from(_, _, _)
helo_from(i, st, verbose) ==
    IF i > Len(HeloSteps) THEN helo_exit(st, "none", <<>>, verbose)
    ELSE UNION { IF x.exc = "none" THEN helo_from(i + 1, x.st, verbose)
                 ELSE helo_exit(x.st, x.exc, x.msg, verbose)
                   : x \in helo_step(HeloSteps[i], st) }

helo(argv) ==
    LET po == parse_options(argv, {S_v})
    IN  IF Len(po.positionals) # 1
        THEN WriteAll(<<Line(<<"Usage: helo [-v] HOST">>)>>)
        ELSE helo_from(1, HeloStart, S_v \in po.options)

(* ------------------------------- state -------------------------------- *)

VARIABLES
    pc,         \* where the session's thread is: "idle" (not inside
                \* Commands::system) or a place of Commands::log
    cmdline,    \* _cmdline of the current (or last) Commands::system call
    out,        \* the writes the sink accepted during that call, in order
    result,     \* how the call ended: "start" (none was made), "running",
                \* "none" (returned), "domain" / "other" (raised),
                \* "terminate" (std::terminate)
    invoked,    \* the handlers the call invoked, with their arguments
    hres,       \* how the invoked handler ended, after how many accepted and
                \* how many refused writes
    faults,     \* the writes the sink refused during the call
    acts,       \* the collaborator calls the handler made
    pre,        \* listener, callback and connection counts when the call began
    listeners,  \* listeners registered with sys->logBuf
    auxFuncs,   \* size of AUX_LOG_FUNC_VECTOR
    openConns,  \* open sockets
    cancelled,  \* what cancel() returns
    lock,       \* Commands::log's mutex: "free", or "handler" while the drain
                \* holds it (the callback takes and releases it in one step)
    queue,      \* Commands::log's queue
    pushed,     \* every chunk the callback pushed during the call, in order
    produced,   \* how many messages the log buffer has passed to the callback
    pcP,        \* the log buffer's thread: "idle" or inside the callback
    cbChunk,    \* the chunk the callback has formatted
    pend,       \* the failure Commands::log is leaving its loop with
    removed,    \* calls of removeListener during the call
    ret         \* what the last direct call of command_words or
                \* parse_options returned

vars == << pc, cmdline, out, result, invoked, hres, faults, acts, pre,
           listeners, auxFuncs, openConns, cancelled, lock, queue, pushed,
           produced, pcP, cbChunk, pend, removed, ret >>

NoHandler == [exc |-> "none", msg |-> <<>>, nout |-> 0, faults |-> 0]
NoFailure == [exc |-> "none", msg |-> <<>>]
NoChunk   == <<>>
NoRet     == <<>>

Init ==
    /\ pc = "idle"
    /\ cmdline = <<>>
    /\ out = <<>>
    /\ result = "start"
    /\ invoked = <<>>
    /\ hres = NoHandler
    /\ faults = 0
    /\ acts = <<>>
    /\ pre = [listeners |-> 0, auxFuncs |-> 0, openConns |-> 0]
    /\ listeners = 0
    /\ auxFuncs = 0
    /\ openConns = 0
    /\ cancelled = FALSE
    /\ lock = "free"
    /\ queue = <<>>
    /\ pushed = <<>>
    /\ produced = 0
    /\ pcP = "idle"
    /\ cbChunk = NoChunk
    /\ pend = NoFailure
    /\ removed = 0
    /\ ret = NoRet

(* --------------------------- Commands::system ------------------------- *)

\* Mutant of Dispatch: the name is compared without regard to case.
Dispatch_nocase(cmd) ==
    IF cmd \in {S_log, <<"L", "o", "g">>} THEN "log"
    ELSE IF cmd = S_nslookup THEN "nslookup"
    ELSE IF cmd = S_helo THEN "helo"
    ELSE IF cmd = S_filter THEN "filter"
    ELSE IF cmd = S_get THEN "get"
    ELSE IF cmd = S_chan THEN "chan"
    ELSE IF cmd = S_echo THEN "echo"
    ELSE "none"

\* The if / else if chain on cmd: the handler it selects.
Dispatch(cmd) ==
    IF cmd = S_log THEN "log"
    ELSE IF cmd = S_nslookup THEN "nslookup"
    ELSE IF cmd = S_helo THEN "helo"
    ELSE IF cmd = S_filter THEN "filter"
    ELSE IF cmd = S_get THEN "get"
    ELSE IF cmd = S_chan THEN "chan"
    ELSE IF cmd = S_echo THEN "echo"
    ELSE "none"

\* The handlers that run on the session's thread alone.
Handler(name, args) ==
    CASE name = "nslookup" -> nslookup(args)
      [] name = "helo"     -> helo(args)
      [] name = "filter"   -> filter(args)
      [] name = "get"      -> get(args)
      [] name = "chan"     -> chan(args)
      [] name = "echo"     -> echo(args)

\* words[0] and the vector built from words.begin() + 1.
CmdOf(words)  == words[1]
ArgsOf(words) == SubSeq(words, 2, Len(words))

\* Mutant of system_catch: catch (...), every failure is rendered.
system_catch_all(a) ==
    IF a.exc \in Raised
    THEN { Join(Outcome(a.out, "none", <<>>, a.faults, a.acts), b)
             : b \in WriteAll(<<Line(ErrorText(a.msg))>>) }
    ELSE {a}

\* catch (GeneralException& e) of Commands::system: one line "Error: <what>";
\* anything else goes on to the caller.
system_catch(a) ==
    IF a.exc = "domain"
    THEN { Join(Outcome(a.out, "none", <<>>, a.faults, a.acts), b)
             : b \in WriteAll(<<Line(ErrorText(a.msg))>>) }
    ELSE {a}

RECURSIVE Count(_, _)
Count(as, a) ==
    IF as = <<>> THEN 0
    ELSE (IF Head(as) = a THEN 1 ELSE 0) + Count(Tail(as), a)

\* The call ends with outcome o, its handler (if any) having ended as h.
Finish(o, h) ==
    /\ pc' = "idle"
    /\ out' = o.out
    /\ result' = o.exc
    /\ faults' = o.faults
    /\ acts' = o.acts
    /\ hres' = h
    /\ auxFuncs' = auxFuncs + Count(o.acts, <<"aux_push">>) - Count(o.acts, <<"aux_pop">>)
    /\ openConns' = openConns + Count(o.acts, <<"sock_open">>)
                              - Count(o.acts, <<"sock_close">>)

HandlerResult(h) ==
    [exc |-> h.exc, msg |-> h.msg, nout |-> Len(h.out), faults |-> h.faults]

system(line) ==
    /\ cmdline' = line
    /\ pre' = [listeners |-> listeners, auxFuncs |-> auxFuncs, openConns |-> openConns]
    /\ pushed' = <<>>
    /\ removed' = 0
    /\ UNCHANGED << ret, cancelled, lock, queue, produced, pcP, cbChunk, pend >>
    /\ LET w == command_words(line)
       IN  IF ~w.ok
           THEN /\ \E o \in system_catch(Outcome(<<>>, "domain", w.msg, 0, <<>>)) :
                      Finish(o, NoHandler)
                /\ invoked' = <<>>
                /\ UNCHANGED listeners
           ELSE IF Len(w.words) = 0
           THEN /\ \E a \in WriteAll(<<Line(<<"Error: ", "Empty command line">>)>>) :
                      \E o \in system_catch(a) : Finish(o, NoHandler)
                /\ invoked' = <<>>
                /\ UNCHANGED listeners
           ELSE LET cmd  == CmdOf(w.words)
                    args == ArgsOf(w.words)
                    name == Dispatch(cmd)
                IN  IF name = "log"
                    THEN \* Commands::log: addListener, then the loop
                         /\ invoked' = <<[name |-> name, argv |-> args]>>
                         /\ listeners' = listeners + 1
                         /\ pc' = "log_poll"
                         /\ out' = <<>>
                         /\ result' = "running"
                         /\ faults' = 0
                         /\ acts' = <<>>
                         /\ hres' = NoHandler
                         /\ UNCHANGED << auxFuncs, openConns >>
                    ELSE IF name # "none"
                    THEN /\ invoked' = <<[name |-> name, argv |-> args]>>
                         /\ \E h \in Handler(name, args) :
                              \E o \in system_catch(h) : Finish(o, HandlerResult(h))
                         /\ UNCHANGED listeners
                    ELSE /\ invoked' = <<>>
                         /\ \E a \in WriteAll(<<Line(<<"Error: ", "No such command '">>
                                                      \o cmd \o <<"'">>)>>) :
                              \E o \in system_catch(a) : Finish(o, NoHandler)
                         /\ UNCHANGED listeners

(* ----------------------------- Commands::log -------------------------- *)

TypeStr == "INFO"
\* str::format("[%s] %s\n", LogBuffer::getTypeStr(type), msg) of the n-th message
Chunk(n) == <<"[", TypeStr, "] ", ToString(n), "\n">>

CancelMsg == <<"cancel failed">>

LogPcs == {"log_poll", "log_lock", "log_drain", "log_write", "log_sleep",
           "log_defer", "log_return"}

\* Mutant of log_poll: the loop goes on whatever cancel() returns.
log_poll_ignore ==
    /\ pc = "log_poll"
    /\ pc' = "log_lock"
    /\ UNCHANGED << ret, cmdline, out, result, invoked, hres, faults, acts, pre,
                    listeners, auxFuncs, openConns, cancelled, lock, queue,
                    pushed, produced, pcP, cbChunk, pend, removed >>

\* while (!cancel()): cancel() returns, or raises.
log_poll ==
    /\ pc = "log_poll"
    /\ \/ /\ pc' = IF cancelled THEN "log_defer" ELSE "log_lock"
          /\ UNCHANGED pend
       \/ \E e \in Raised :
            /\ pend' = [exc |-> e, msg |-> IF e = "domain" THEN CancelMsg ELSE <<>>]
            /\ pc' = "log_defer"
    /\ UNCHANGED << ret, cmdline, out, result, invoked, hres, faults, acts, pre,
                    listeners, auxFuncs, openConns, cancelled, lock, queue,
                    pushed, produced, pcP, cbChunk, removed >>

\* std::lock_guard cs(lock)
log_lock ==
    /\ pc = "log_lock"
    /\ lock = "free"
    /\ lock' = "handler"
    /\ pc' = "log_drain"
    /\ UNCHANGED << ret, cmdline, out, result, invoked, hres, faults, acts, pre,
                    listeners, auxFuncs, openConns, cancelled, queue, pushed,
                    produced, pcP, cbChunk, pend, removed >>

\* while (!queue.empty()): queue.front(), or the end of the locked block.
log_drain ==
    /\ pc = "log_drain"
    /\ IF queue = <<>>
       THEN lock' = "free" /\ pc' = "log_sleep"
       ELSE pc' = "log_write" /\ UNCHANGED lock
    /\ UNCHANGED << ret, cmdline, out, result, invoked, hres, faults, acts, pre,
                    listeners, auxFuncs, openConns, cancelled, queue, pushed,
                    produced, pcP, cbChunk, pend, removed >>

\* stream.writeString(chunk); queue.pop(): the sink accepts the chunk, or
\* raises, and the failure leaves the locked block and the loop.
log_write ==
    /\ pc = "log_write"
    /\ \/ /\ out' = Append(out, Raw(Head(queue)))
          /\ queue' = Tail(queue)
          /\ pc' = "log_drain"
          /\ UNCHANGED << faults, pend, lock >>
       \/ \E e \in Raised :
            /\ faults' = faults + 1
            /\ pend' = [exc |-> e, msg |-> IF e = "domain" THEN SinkMsg ELSE <<>>]
            /\ lock' = "free"
            /\ pc' = "log_defer"
            /\ UNCHANGED << out, queue >>
    /\ UNCHANGED << ret, cmdline, result, invoked, hres, acts, pre, listeners,
                    auxFuncs, openConns, cancelled, pushed, produced, pcP,
                    cbChunk, removed >>

\* sys->sleep(100) returns.
log_sleep ==
    /\ pc = "log_sleep"
    /\ pc' = "log_poll"
    /\ UNCHANGED << ret, cmdline, out, result, invoked, hres, faults, acts, pre,
                    listeners, auxFuncs, openConns, cancelled, lock, queue,
                    pushed, produced, pcP, cbChunk, pend, removed >>

\* sys->logBuf->removeListener(id) does not return while the log buffer is
\* inside the listener.
removeListener_enabled == pcP = "idle"

\* Mutant of log_defer: the Defer is declared before lock and queue, so they
\* are destroyed before the listener is known to be gone.
log_defer_early ==
    /\ pc = "log_defer"
    /\ listeners' = listeners - 1
    /\ removed' = removed + 1
    /\ pc' = "log_return"
    /\ UNCHANGED << ret, cmdline, out, result, invoked, hres, faults, acts, pre,
                    auxFuncs, openConns, cancelled, lock, queue, pushed,
                    produced, pcP, cbChunk, pend >>

\* Mutant of log_defer: removeListener(id) after the loop instead of in a
\* Defer, so a failure leaving the loop skips it.
log_defer_skipped ==
    /\ pc = "log_defer"
    /\ removeListener_enabled
    /\ listeners' = IF pend.exc = "none" THEN listeners - 1 ELSE listeners
    /\ removed' = IF pend.exc = "none" THEN removed + 1 ELSE removed
    /\ pc' = "log_return"
    /\ UNCHANGED << ret, cmdline, out, result, invoked, hres, faults, acts, pre,
                    auxFuncs, openConns, cancelled, lock, queue, pushed,
                    produced, pcP, cbChunk, pend >>

\* Defer defer: removeListener(id) as Commands::log is left.
log_defer ==
    /\ pc = "log_defer"
    /\ removeListener_enabled
    /\ listeners' = listeners - 1
    /\ removed' = removed + 1
    /\ pc' = "log_return"
    /\ UNCHANGED << ret, cmdline, out, result, invoked, hres, faults, acts, pre,
                    auxFuncs, openConns, cancelled, lock, queue, pushed,
                    produced, pcP, cbChunk, pend >>

\* Commands::log is left: queue and lock are destroyed, and Commands::system
\* goes on, with its catch when a failure was raised.
log_return ==
    /\ pc = "log_return"
    /\ \E o \in system_catch(Outcome(out, pend.exc, pend.msg, faults, acts)) :
         Finish(o, HandlerResult(Outcome(out, pend.exc, pend.msg, faults, acts)))
    /\ queue' = <<>>
    /\ produced' = 0
    /\ pend' = NoFailure
    /\ UNCHANGED << ret, cmdline, invoked, pre, listeners, cancelled, lock, pushed,
                    pcP, cbChunk, removed >>

\* The log buffer calls the listener with its next message: the callback
\* formats the chunk.
callback_format ==
    /\ pc \in LogPcs \ {"log_return"}
    /\ pcP = "idle"
    /\ produced < MaxChunks
    /\ produced' = produced + 1
    /\ cbChunk' = Chunk(produced + 1)
    /\ pcP' = "cb_lock"
    /\ UNCHANGED << ret, pc, cmdline, out, result, invoked, hres, faults, acts, pre,
                    listeners, auxFuncs, openConns, cancelled, lock, queue,
                    pushed, pend, removed >>

\* Mutant of callback_push: the chunk goes to the front of the queue.
callback_push_front ==
    /\ pcP = "cb_lock"
    /\ lock = "free"
    /\ queue' = <<cbChunk>> \o queue
    /\ pushed' = Append(pushed, cbChunk)
    /\ cbChunk' = NoChunk
    /\ pcP' = "idle"
    /\ UNCHANGED << ret, pc, cmdline, out, result, invoked, hres, faults, acts, pre,
                    listeners, auxFuncs, openConns, cancelled, lock, produced,
                    pend, removed >>

\* std::lock_guard cs(lock); queue.push(chunk); and the callback returns.
callback_push ==
    /\ pcP = "cb_lock"
    /\ lock = "free"
    /\ queue' = Append(queue, cbChunk)
    /\ pushed' = Append(pushed, cbChunk)
    /\ cbChunk' = NoChunk
    /\ pcP' = "idle"
    /\ UNCHANGED << ret, pc, cmdline, out, result, invoked, hres, faults, acts, pre,
                    listeners, auxFuncs, openConns, cancelled, lock, produced,
                    pend, removed >>

\* The session that called Commands::system, and saw it return, takes its
\* next command line: what was recorded of the last call is dropped.
session_next ==
    /\ pc = "idle"
    /\ result = "none"
    /\ result' = "start"
    /\ cmdline' = <<>>
    /\ out' = <<>>
    /\ invoked' = <<>>
    /\ hres' = NoHandler
    /\ faults' = 0
    /\ acts' = <<>>
    /\ pushed' = <<>>
    /\ removed' = 0
    /\ ret' = NoRet
    /\ pre' = [listeners |-> listeners, auxFuncs |-> auxFuncs, openConns |-> openConns]
    /\ UNCHANGED << pc, listeners, auxFuncs, openConns, cancelled, lock, queue,
                    produced, pcP, cbChunk, pend >>

\* The owner of the session asks for cancellation.
request_cancel ==
    /\ ~cancelled
    /\ cancelled' = TRUE
    /\ UNCHANGED << ret, pc, cmdline, out, result, invoked, hres, faults, acts, pre,
                    listeners, auxFuncs, openConns, lock, queue, pushed,
                    produced, pcP, cbChunk, pend, removed >>

\* The session calls Commands::system with a command line.
session_call ==
    /\ pc = "idle"
    /\ result = "start"
    /\ \E line \in CmdLines : system(line)

Next ==
    \/ session_call
    \/ log_poll
    \/ log_lock
    \/ log_drain
    \/ log_write
    \/ log_sleep
    \/ log_defer
    \/ log_return
    \/ callback_format
    \/ callback_push
    \/ session_next
    \/ request_cancel

Spec == Init /\ [][Next]_vars

\* The sessions that only ever issue the command log: the command lines whose
\* first word is log.
LogLines ==
    { l \in CmdLines :
        LET w == command_words(l)
        IN  w.ok /\ Len(w.words) > 0 /\ CmdOf(w.words) = S_log }

log_session_call ==
    /\ pc = "idle"
    /\ result = "start"
    /\ \E line \in LogLines : system(line)

NextLog ==
    \/ log_session_call
    \/ log_poll
    \/ log_lock
    \/ log_drain
    \/ log_write
    \/ log_sleep
    \/ log_defer
    \/ log_return
    \/ callback_format
    \/ callback_push
    \/ session_next
    \/ request_cancel

\* Such a session, its thread and the log buffer's thread scheduled fairly:
\* a step of Commands::log that can be taken is taken, and a callback that
\* waits for the free mutex gets it.
FairLogSpec ==
    /\ Init /\ [][NextLog]_vars
    /\ WF_vars(log_poll) /\ WF_vars(log_lock) /\ WF_vars(log_drain)
    /\ WF_vars(log_write) /\ WF_vars(log_sleep) /\ WF_vars(log_defer)
    /\ WF_vars(log_return) /\ WF_vars(callback_push)

(* ---------------------------- direct calls ---------------------------- *)

\* The arguments of a direct call: ordinary words, the flag -v and the end of
\* options --.
Tokens == { <<"a">>, <<"b">>, S_v, S_dashdash }

ArgVecs == UNION { [1..n -> Tokens] : n \in 0..MaxArgs }

\* The option names parse_options is called with.
OptionNames == { {}, {S_v}, {S_v, S_dashdash} }

\* The characters of the lines command_words is called with, and the lines.
Chars == { SP, DQ, BS, "a", "b" }

Lines == UNION { [1..n -> Chars] : n \in 0..MaxLineLen }

\* Words to join into a line: the arguments above, the empty word, and words
\* holding a space, a double quote, a backslash.
RawTokens == Tokens \cup { <<>>, <<"a", SP, "b">>, <<DQ>>, <<BS, "a">> }

TokenSeqs == UNION { [1..n -> RawTokens] : n \in 0..MaxArgs }

HandlerNames == {"nslookup", "helo", "filter", "get", "chan", "echo"}

\* A handler of Commands called with argv, not through Commands::system: what
\* it raises goes to its caller.
handler_call ==
    /\ pc = "idle"
    /\ result = "start"
    /\ \E name \in HandlerNames, argv \in ArgVecs :
         /\ invoked' = <<[name |-> name, argv |-> argv]>>
         /\ \E h \in Handler(name, argv) : Finish(h, HandlerResult(h))
    /\ pre' = [listeners |-> listeners, auxFuncs |-> auxFuncs, openConns |-> openConns]
    /\ UNCHANGED << cmdline, listeners, cancelled, lock, queue, pushed,
                    produced, pcP, cbChunk, pend, removed, ret >>

\* command_words returned r for the line: it returned words, or threw.
Returned(name, argv, line, r) ==
    /\ invoked' = <<[name |-> name, argv |-> argv]>>
    /\ cmdline' = line
    /\ ret' = r
    /\ result' = IF r.ok THEN "none" ELSE "domain"
    /\ UNCHANGED << pc, out, hres, faults, acts, pre, listeners, auxFuncs,
                    openConns, cancelled, lock, queue, pushed, produced, pcP,
                    cbChunk, pend, removed >>

\* command_words called with a line.
command_words_call ==
    /\ pc = "idle"
    /\ result = "start"
    /\ \E line \in Lines : Returned("command_words", <<>>, line, command_words(line))

\* command_words called with words joined by single spaces.
join_call ==
    /\ pc = "idle"
    /\ result = "start"
    /\ \E ws \in TokenSeqs :
         Returned("join", ws, str_join(<<SP>>, ws),
                  command_words(str_join(<<SP>>, ws)))

\* command_words called with the words it returned, joined by single spaces.
rejoin_call ==
    /\ pc = "idle"
    /\ invoked # <<>>
    /\ invoked[1].name = "command_words"
    /\ ret.ok
    /\ Returned("join", ret.words, str_join(<<SP>>, ret.words),
                command_words(str_join(<<SP>>, ret.words)))

\* parse_options called with arguments and option names.
parse_options_call ==
    /\ pc = "idle"
    /\ result = "start"
    /\ \E args \in ArgVecs, names \in OptionNames :
         /\ invoked' = <<[name |-> "parse_options", argv |-> args,
                          option_names |-> names]>>
         /\ ret' = parse_options(args, names)
    /\ result' = "none"
    /\ UNCHANGED << pc, cmdline, out, hres, faults, acts, pre, listeners,
                    auxFuncs, openConns, cancelled, lock, queue, pushed,
                    produced, pcP, cbChunk, pend, removed >>

NextFun ==
    \/ handler_call
    \/ command_words_call
    \/ join_call
    \/ rejoin_call
    \/ parse_options_call
    \/ session_next

\* The functions of commands.cpp, each called directly on its inputs.
FunSpec == Init /\ [][NextFun]_vars

(* ------------------------------- claims ------------------------------- *)

\* A call of Commands::system was made, and has ended.
Ended == pc = "idle" /\ result # "start"

\* The call invoked the handler name.
Invoked(name) == invoked # <<>> /\ invoked[1].name = name

\* The chunks among the writes ws (Commands::log writes them with
\* writeString, and nothing else that way).
RECURSIVE ChunksOf(_)
ChunksOf(ws) ==
    IF ws = <<>> THEN <<>>
    ELSE (IF Head(ws).k = "raw" THEN <<Head(ws).t>> ELSE <<>>) \o ChunksOf(Tail(ws))

IsPrefix(a, b) == Len(a) <= Len(b) /\ a = SubSeq(b, 1, Len(a))

Released ==
    /\ listeners = pre.listeners
    /\ auxFuncs = pre.auxFuncs
    /\ openConns = pre.openConns

\* C1 (as claimed): when Commands::log returns because cancel() returned
\* true, every chunk the callback pushed has been written to the sink.
C1_NoChunkLost ==
    (Ended /\ Invoked("log") /\ hres.exc = "none") => ChunksOf(out) = pushed

\* C2: the listener Commands::log registers is removed exactly once on every
\* way out of it (cancellation seen, a failure of the sink write, a failure
\* of cancel()): while the loop runs it is registered and removeListener was
\* not called, after it removeListener was called once and the number of
\* listeners is what it was before the call.
C2_ListenerRemovedOnce ==
    Invoked("log") =>
        /\ pc \in LogPcs \ {"log_return"} =>
              removed = 0 /\ listeners = pre.listeners + 1
        /\ pc \in {"log_return", "idle"} =>
              removed = 1 /\ listeners = pre.listeners

\* Commands::log was left by a failure of the sink, and has returned to
\* Commands::system, which rendered it.
C2_Witness ==
    /\ Ended /\ Invoked("log")
    /\ hres.exc = "domain" /\ hres.faults = 1 /\ hres.nout = 1
    /\ removed = 1 /\ listeners = 0

\* C3: at every moment of Commands::log, the chunks written to the sink are
\* a prefix of the chunks the callback pushed (so they are written in push
\* order, none twice: the chunks differ).
C3_WrittenPrefixOfPushed ==
    Invoked("log") => IsPrefix(ChunksOf(out), pushed)

\* Two chunks were written, the second pushed while the first was being
\* written or later.
C3_Witness ==
    /\ pc = "log_write" /\ Len(out) = 1 /\ Len(pushed) = 2 /\ Len(queue) = 1
    /\ ~cancelled

\* C4: under fair scheduling, once cancel() returns true (and it stays true)
\* Commands::log returns; and a poll that sees true starts no further drain:
\* from the poll the handler goes nowhere but out of the loop.
C4_Cancellable ==
    /\ (pc \in LogPcs /\ cancelled) ~> (pc = "idle")
    /\ [][(pc = "log_poll" /\ cancelled) => pc' \in {"log_poll", "log_defer"}]_vars

\* Cancellation was requested during a drain with chunks still queued.
C4_Witness ==
    pc = "log_write" /\ cancelled /\ Len(queue) = 2

RECURSIVE ScanFrom(_, _, _)
ScanFrom(s, i, mode) ==
    IF i > Len(s) THEN mode
    ELSE ScanFrom(s, i + 1,
                  CASE mode = "plain"   -> IF s[i] = DQ THEN "quoted" ELSE "plain"
                    [] mode = "quoted"  -> IF s[i] = BS THEN "escaped"
                                           ELSE IF s[i] = DQ THEN "plain"
                                           ELSE "quoted"
                    [] mode = "escaped" -> "quoted")

ScanEnd(s) == ScanFrom(s, 1, "plain")

\* C6: command_words fails exactly when the input ends inside a quoted region
\* ("Premature end of quoted string") or right after a backslash inside one
\* ("Premature end of escaped character"); then it yields no words, no
\* handler is invoked, and Commands::system writes the one line
\* "Error: <message>" and nothing else (on a sink that accepts the line;
\* nothing at all on one that refuses it).
C6_TokenizerFailure ==
    result # "start" =>
        LET w == command_words(cmdline)
            e == ScanEnd(cmdline)
        IN  /\ w.ok <=> e = "plain"
            /\ e = "quoted" => w.msg = <<"Premature end of quoted string">>
            /\ e = "escaped" => w.msg = <<"Premature end of escaped character">>
            /\ ~w.ok =>
                 /\ w.words = <<>>
                 /\ invoked = <<>>
                 /\ pc = "idle"
                 /\ IF faults = 0
                    THEN result = "none" /\ out = <<Line(ErrorText(w.msg))>>
                    ELSE out = <<>>

\* get "x
C6_Witness ==
    /\ Ended
    /\ cmdline = S_get \o <<SP, DQ, "x">>
    /\ out = <<Line(<<"Error: ", "Premature end of quoted string">>)>>
    /\ result = "none"

\* The names Commands::system knows, each with its handler.
HandlerTable ==
    { <<S_log, "log">>, <<S_nslookup, "nslookup">>, <<S_helo, "helo">>,
      <<S_filter, "filter">>, <<S_get, "get">>, <<S_chan, "chan">>,
      <<S_echo, "echo">> }

\* C7: when the first word is none of the seven names, exactly as written,
\* no handler is invoked and the one line "Error: No such command '<word>'"
\* is written (on a sink that accepts it), whatever the other words are; when
\* it is one of the names, that handler and no other is invoked, once, with
\* the other words, unchanged and in order, as its arguments.
C7_Dispatch ==
    LET w == command_words(cmdline)
    IN  (result # "start" /\ w.ok /\ Len(w.words) > 0) =>
            LET cmd  == Head(w.words)
                rest == Tail(w.words)
            IN  IF \E e \in HandlerTable : e[1] = cmd
                THEN invoked = << [name |-> (CHOOSE e \in HandlerTable : e[1] = cmd)[2],
                                   argv |-> rest] >>
                ELSE /\ invoked = <<>>
                     /\ pc = "idle"
                     /\ IF faults = 0
                        THEN /\ result = "none"
                             /\ out = <<Line(<<"Error: ", "No such command '">>
                                             \o cmd \o <<"'">>)>>
                        ELSE Len(out) <= 1

\* Log -v x
C7_Witness ==
    /\ Ended
    /\ cmdline = <<"L", "o", "g">> \o <<SP>> \o S_v \o <<SP, "x">>
    /\ out = <<Line(<<"Error: ", "No such command '", "L", "o", "g", "'">>)>>
    /\ invoked = <<>>

AllSpaces(s) == \A i \in 1..Len(s) : s[i] = SP

EmptyLine == Line(<<"Error: ", "Empty command line">>)

\* C8: a command line has no words exactly when it is empty or only spaces;
\* for such a line Commands::system invokes no handler, raises nothing and
\* writes the one line "Error: Empty command line" (on a sink that accepts
\* it), and that is not what it writes when command_words fails.
C8_EmptyCommandLine ==
    result # "start" =>
        LET w == command_words(cmdline)
        IN  /\ (w.ok /\ w.words = <<>>) <=> AllSpaces(cmdline)
            /\ AllSpaces(cmdline) =>
                 /\ invoked = <<>>
                 /\ pc = "idle"
                 /\ IF faults = 0
                    THEN result = "none" /\ out = <<EmptyLine>>
                    ELSE Len(out) <= 1
            /\ (~w.ok /\ faults = 0) => out # <<EmptyLine>>

\* A line of two spaces.
C8_Witness ==
    /\ Ended
    /\ cmdline = <<SP, SP>>
    /\ out = <<EmptyLine>>
    /\ result = "none"

\* The call met an error: command_words failed, the line was empty, the
\* command is unknown, a collaborator of the handler failed, or the handler
\* raised a domain failure.
ErrorCase ==
    LET w == command_words(cmdline)
    IN  \/ ~w.ok
        \/ w.words = <<>>
        \/ invoked = <<>>
        \/ \E i \in 1..Len(acts) : acts[i][Len(acts[i])] = "failed"
        \/ hres.exc = "domain"

\* The writes of ws that are a line starting "Error: ".
ErrorLines(ws) ==
    { i \in 1..Len(ws) :
        ws[i].k = "line" /\ Len(ws[i].t) > 0 /\ ws[i].t[1] = "Error: " }

\* C9 (as claimed): every error of a command that Commands::system returns
\* from (on a sink that accepts every write) is in the sink as one
\* line-terminated write starting "Error: ".
C9_ErrorsAreLines ==
    (Ended /\ result = "none" /\ faults = 0 /\ ErrorCase) =>
        Cardinality(ErrorLines(out)) = 1

FirstDashDash(args) ==
    IF \E i \in 1..Len(args) : args[i] = S_dashdash
    THEN CHOOSE i \in 1..Len(args) :
           /\ args[i] = S_dashdash
           /\ \A j \in 1..(i - 1) : args[j] # S_dashdash
    ELSE Len(args) + 1

\* The arguments before the first "--" that are no flag, then everything
\* after it.
PositionalsOf(args, flags) ==
    LET k == FirstDashDash(args)
    IN  SelectSeq(SubSeq(args, 1, k - 1), LAMBDA t : t \notin flags)
        \o SubSeq(args, k + 1, Len(args))

\* The flags before the first "--".
OptionsOf(args, flags) ==
    { args[i] : i \in { j \in 1..(FirstDashDash(args) - 1) : args[j] \in flags } }

UsageLine(name) ==
    CASE name = "nslookup" -> Line(<<"Usage: nslookup NAME">>)
      [] name = "get"      -> Line(<<"Usage: get URL">>)
      [] name = "helo"     -> Line(<<"Usage: helo [-v] HOST">>)

\* C11: nslookup, get and helo (its -v taken out), called with a number of
\* positionals that is not 1, make exactly one write, the usage line (which a
\* sink that accepts it then holds, alone), return normally, call no
\* collaborator (no DNS lookup, HTTP fetch, socket, callback registration) and
\* acquire nothing.
C11_UsageOnly ==
    \A name \in {"nslookup", "get", "helo"} :
        (Ended /\ Invoked(name)
           /\ Len(IF name = "helo" THEN PositionalsOf(invoked[1].argv, {S_v})
                  ELSE invoked[1].argv) # 1) =>
            /\ acts = <<>>
            /\ Released
            /\ Len(out) + faults = 1
            /\ faults = 0 => (out = <<UsageLine(name)>> /\ result = "none")

\* helo -v a b
C11_Witness ==
    /\ Ended /\ Invoked("helo")
    /\ invoked[1].argv = <<S_v, <<"a">>, <<"b">>>>
    /\ out = <<Line(<<"Usage: helo [-v] HOST">>)>>
    /\ acts = <<>> /\ result = "none"

\* C12: parse_options returns as positionals the arguments before the first
\* "--" that are no option name, in order, then every argument after that
\* "--" as it is (option names and further "--" included), without the "--"
\* itself; and as options exactly the option names that occur before it.
C12_ParseOptions ==
    (Ended /\ Invoked("parse_options")) =>
        /\ ret.positionals = PositionalsOf(invoked[1].argv, invoked[1].option_names)
        /\ ret.options = OptionsOf(invoked[1].argv, invoked[1].option_names)

\* parse_options(<<"-v", "--", "-v">>, {"-v"})
C12_Witness ==
    /\ Ended /\ Invoked("parse_options")
    /\ invoked[1].argv = <<S_v, S_dashdash, S_v>>
    /\ invoked[1].option_names = {S_v}
    /\ ret.positionals = <<S_v>>
    /\ ret.options = {S_v}

\* The words ps with one space between neighbours.
RECURSIVE SpaceJoined(_)
SpaceJoined(ps) ==
    IF Len(ps) = 0 THEN <<>>
    ELSE IF Len(ps) = 1 THEN ps[1]
    ELSE SpaceJoined(SubSeq(ps, 1, Len(ps) - 1)) \o <<SP>> \o ps[Len(ps)]

\* What echo is to write for argv.
EchoLines(argv) ==
    LET ps == PositionalsOf(argv, {S_v})
    IN  IF \E i \in 1..(FirstDashDash(argv) - 1) : argv[i] = S_v
        THEN [i \in 1..Len(ps) |-> Line(<<"[", ToString(i), "] ">> \o ps[i])]
        ELSE <<Line(SpaceJoined(ps))>>

\* C13: Commands::echo, with -v among its arguments before any "--", writes
\* one line "[i] <positional>" per positional, in order, i counting from 1
\* (no line for no positional); otherwise it writes one line, the positionals
\* with single spaces between them (an empty line for no positional).  On a
\* sink that accepts the lines, they are what the sink holds.
C13_Echo ==
    (Ended /\ Invoked("echo") /\ faults = 0) =>
        /\ result = "none"
        /\ out = EchoLines(invoked[1].argv)

\* echo a -v b
C13_Witness ==
    /\ Ended /\ Invoked("echo")
    /\ invoked[1].argv = << <<"a">>, S_v, <<"b">> >>
    /\ out = << Line(<<"[", "1", "] ", "a">>), Line(<<"[", "2", "] ", "b">>) >>

\* An empty quoted region that begins a word starts at i: "" at the start of
\* the line, after a space, or after a closing quote.
EmptyQuoteAt(s, i) ==
    /\ i + 1 <= Len(s)
    /\ s[i] = DQ
    /\ s[i + 1] = DQ
    /\ ScanEnd(SubSeq(s, 1, i - 1)) = "plain"
    /\ (i = 1 \/ s[i - 1] \in {SP, DQ})

\* C14: when command_words succeeds, its empty words are exactly the empty
\* quoted regions "" with no unquoted text of the same word before them: as
\* many empty words as such regions, so none for a line without quotes,
\* whatever its leading, trailing and repeated spaces.
C14_EmptyTokens ==
    (Ended /\ Invoked("command_words") /\ ret.ok) =>
        Cardinality({ k \in 1..Len(ret.words) : ret.words[k] = <<>> })
          = Cardinality({ i \in 1..Len(cmdline) : EmptyQuoteAt(cmdline, i) })

\* The line: space, a, space, space, "".
C14_Witness ==
    /\ Ended /\ Invoked("command_words")
    /\ cmdline = <<SP, "a", SP, DQ, DQ>>
    /\ ret.ok
    /\ ret.words = << <<"a">>, <<>> >>

\* A word that needs no quoting: not empty, without space, quote, backslash.
Clean(t) == t # <<>> /\ \A i \in 1..Len(t) : t[i] \notin {SP, DQ, BS}

\* C15: words that need no quoting, joined by single spaces, are what
\* command_words returns for the joined line; so the words command_words
\* returned, when they need no quoting, come back when joined and tokenized
\* again.
C15_RoundTrip ==
    (Ended /\ Invoked("join")
       /\ \A k \in 1..Len(invoked[1].argv) : Clean(invoked[1].argv[k])) =>
        /\ ret.ok
        /\ ret.words = invoked[1].argv

\* a -v b
C15_Witness ==
    /\ Ended /\ Invoked("join")
    /\ invoked[1].argv = << <<"a">>, S_v, <<"b">> >>
    /\ cmdline = <<"a", SP, "-", "v", SP, "b">>
    /\ ret.ok /\ ret.words = invoked[1].argv

\* C16 (as claimed): while Commands::log is inside stream.writeString or
\* sys->sleep, its mutex is free for the callback.
C16_LockFreeDuringIO ==
    pc \in {"log_write", "log_sleep"} => lock = "free"

\* The positions of the closing quotes of s.
ClosingQuotes(s) ==
    { j \in 1..Len(s) : s[j] = DQ /\ ScanEnd(SubSeq(s, 1, j - 1)) = "quoted" }

\* s is u"q"v with u, q, v not empty and free of spaces, quotes, backslashes.
QuotedInside(s) ==
    LET qs == { i \in 1..Len(s) : s[i] = DQ }
    IN  /\ Cardinality(qs) = 2
        /\ \A i \in 1..Len(s) : s[i] \notin {SP, BS}
        /\ \E i \in qs, j \in qs : 1 < i /\ i + 1 < j /\ j < Len(s)

OpenAt(s)  == CHOOSE i \in 1..Len(s) : s[i] = DQ /\ \E j \in (i + 1)..Len(s) : s[j] = DQ
CloseAt(s) == CHOOSE j \in 1..Len(s) : s[j] = DQ /\ \E i \in 1..(j - 1) : s[i] = DQ

\* C17 (as claimed): for a line u"q"v the words are u, q and v: neither u nor
\* v is in the word of the quoted q.
C17_NeverConcatenated ==
    (Ended /\ Invoked("command_words") /\ QuotedInside(cmdline)) =>
        ret.words = << SubSeq(cmdline, 1, OpenAt(cmdline) - 1),
                       SubSeq(cmdline, OpenAt(cmdline) + 1, CloseAt(cmdline) - 1),
                       SubSeq(cmdline, CloseAt(cmdline) + 1, Len(cmdline)) >>

\* C17 (amended): a closing quote ends the word at that point, whatever
\* follows: the words of the line are the words of the line up to the closing
\* quote (at least one) followed by the words of the rest.  The unquoted text
\* right before the opening quote is in the word of the quoted text: for a
\* line u"q"v the words are uq and v.
C17_ClosingQuoteFlushes ==
    (Ended /\ Invoked("command_words") /\ ret.ok) =>
        /\ \A j \in ClosingQuotes(cmdline) :
             LET a == command_words(SubSeq(cmdline, 1, j))
                 b == command_words(SubSeq(cmdline, j + 1, Len(cmdline)))
             IN  /\ a.ok /\ b.ok
                 /\ a.words # <<>>
                 /\ ret.words = a.words \o b.words
        /\ QuotedInside(cmdline) =>
             ret.words = << SubSeq(cmdline, 1, OpenAt(cmdline) - 1)
                              \o SubSeq(cmdline, OpenAt(cmdline) + 1,
                                        CloseAt(cmdline) - 1),
                            SubSeq(cmdline, CloseAt(cmdline) + 1, Len(cmdline)) >>

\* a"b"a
C17_Witness ==
    /\ Ended /\ Invoked("command_words")
    /\ cmdline = <<"a", DQ, "b", DQ, "a">>
    /\ ret.ok
    /\ ret.words = << <<"a", "b">>, <<"a">> >>

\* C18 (as claimed): command_words never dereferences its cursor at the end
\* of the line.
C18_NoReadAtEnd ==
    (Ended /\ Invoked("command_words")) => ~ret.atEnd

====
